---- MODULE Spec2Model ----
(***************************************************************************)
(* hyper-req-log: the byte-safe token encoder (src/src/escaped.rs) and the *)
(* request log record with its write / discard / drop lifecycle            *)
(* (src/src/request.rs).                                                   *)
(*                                                                         *)
(* Bytes are integers 0..255, characters are Unicode scalar values, and    *)
(* text written to a formatter or a sink is a sequence of atoms: one       *)
(* string per written character ("a", "\\", "U+e9" for a non-ASCII         *)
(* character) or per written literal ("request: [").                       *)
(***************************************************************************)
EXTENDS Integers, Sequences, FiniteSets, TLC

(* ------------------------------ bounds -------------------------------- *)
\* longest byte sequence handed to the encoder
MaxLen == 4
\* a failing sink fails after at most this many pieces
MaxFail == 2
\* records finalized concurrently
NThreads == 2

(* --------------------------- bytes and chars --------------------------- *)
\* the bytes the encoder's inputs are drawn from: a letter, the quote, the
\* backslash, the space, a control character, a continuation byte, the lead
\* bytes of a 2-, 3- and 4-byte sequence, and a byte that is never valid
Alphabet == {10, 32, 34, 92, 97, 169, 195, 226, 240, 255}

RECURSIVE SeqsUpTo(_, _)
SeqsUpTo(S, n) ==
    IF n = 0 THEN {<< >>}
    ELSE LET shorter == SeqsUpTo(S, n - 1)
         IN  shorter \cup {Append(s, b) : s \in {t \in shorter : Len(t) = n - 1}, b \in S}

\* the characters '!' (0x21) to '~' (0x7e); the grave accent (0x60) cannot
\* stand in a TLA+ string and is written U+60
GraphicTable ==
    << "!", "\"", "#", "$", "%", "&", "'", "(", ")", "*", "+", ",", "-", ".", "/",
       "0", "1", "2", "3", "4", "5", "6", "7", "8", "9", ":", ";", "<", "=", ">", "?",
       "@", "A", "B", "C", "D", "E", "F", "G", "H", "I", "J", "K", "L", "M", "N", "O",
       "P", "Q", "R", "S", "T", "U", "V", "W", "X", "Y", "Z", "[", "\\", "]", "^", "_",
       "U+60", "a", "b", "c", "d", "e", "f", "g", "h", "i", "j", "k", "l", "m", "n", "o",
       "p", "q", "r", "s", "t", "u", "v", "w", "x", "y", "z", "{", "|", "}", "~" >>

HexDigits == << "0", "1", "2", "3", "4", "5", "6", "7", "8", "9",
                "a", "b", "c", "d", "e", "f" >>

\* lowercase hexadecimal digits of n, most significant first, no padding
RECURSIVE HexAtoms(_)
HexAtoms(n) ==
    IF n < 16 THEN << HexDigits[n + 1] >>
    ELSE Append(HexAtoms(n \div 16), HexDigits[(n % 16) + 1])

RECURSIVE Concat(_)
Concat(ss) == IF ss = << >> THEN "" ELSE Head(ss) \o Concat(Tail(ss))

\* char::is_ascii_graphic
IsAsciiGraphic(c) == c >= 33 /\ c <= 126

\* the atom that stands for character c written as itself
CharAtom(c) ==
    IF IsAsciiGraphic(c) THEN GraphicTable[c - 32]
    ELSE IF c = 32 THEN " "
    ELSE IF c = 10 THEN "\n"
    ELSE IF c = 9 THEN "\t"
    ELSE IF c = 13 THEN "\r"
    ELSE "U+" \o Concat(HexAtoms(c))

(* ------------------------- std::str::from_utf8 ------------------------- *)
IsCont(b) == b >= 128 /\ b <= 191

\* core::str::validations::utf8_char_width
Utf8CharWidth(b) ==
    IF b < 128 THEN 1
    ELSE IF b >= 194 /\ b <= 223 THEN 2
    ELSE IF b >= 224 /\ b <= 239 THEN 3
    ELSE IF b >= 240 /\ b <= 244 THEN 4
    ELSE 0

\* the (first, second) byte pairs a 3- or 4-byte sequence may start with
SecondOk(first, second) ==
    \/ first = 224 /\ second >= 160 /\ second <= 191
    \/ first >= 225 /\ first <= 236 /\ IsCont(second)
    \/ first = 237 /\ second >= 128 /\ second <= 159
    \/ first >= 238 /\ first <= 239 /\ IsCont(second)
    \/ first = 240 /\ second >= 144 /\ second <= 191
    \/ first >= 241 /\ first <= 243 /\ IsCont(second)
    \/ first = 244 /\ second >= 128 /\ second <= 143

\* the sequence that starts at bs[1]: [w |-> n] for a valid sequence of n
\* bytes, [w |-> 0, error_len |-> k] for an invalid one (k = 0: the input ends
\* inside the sequence, Utf8Error::error_len() = None)
SeqAt(bs) ==
    LET first == bs[1]
        w     == Utf8CharWidth(first)
        n     == Len(bs)
        Bad(k) == [w |-> 0, error_len |-> k]
    IN  IF w = 1 THEN [w |-> 1, error_len |-> 0]
        ELSE IF w = 0 THEN Bad(1)
        ELSE IF n < 2 THEN Bad(0)
        ELSE IF w = 2 THEN (IF IsCont(bs[2]) THEN [w |-> 2, error_len |-> 0] ELSE Bad(1))
        ELSE IF ~SecondOk(first, bs[2]) THEN Bad(1)
        ELSE IF n < 3 THEN Bad(0)
        ELSE IF ~IsCont(bs[3]) THEN Bad(2)
        ELSE IF w = 3 THEN [w |-> 3, error_len |-> 0]
        ELSE IF n < 4 THEN Bad(0)
        ELSE IF ~IsCont(bs[4]) THEN Bad(3)
        ELSE [w |-> 4, error_len |-> 0]

\* std::str::from_utf8(bs): [ok |-> TRUE] or the Utf8Error's valid_up_to and
\* error_len (0 for None)
RECURSIVE Utf8From(_, _)
Utf8From(bs, index) ==
    IF index >= Len(bs) THEN [ok |-> TRUE, valid_up_to |-> Len(bs), error_len |-> 0]
    ELSE LET r == SeqAt(SubSeq(bs, index + 1, Len(bs)))
         IN  IF r.w = 0
             THEN [ok |-> FALSE, valid_up_to |-> index, error_len |-> r.error_len]
             ELSE Utf8From(bs, index + r.w)

FromUtf8(bs) == Utf8From(bs, 0)

\* str::chars() of valid UTF-8: the scalar values
RECURSIVE Chars(_)
Chars(bs) ==
    IF bs = << >> THEN << >>
    ELSE LET w == Utf8CharWidth(bs[1])
             c == IF w = 1 THEN bs[1]
                  ELSE IF w = 2 THEN (bs[1] % 32) * 64 + (bs[2] % 64)
                  ELSE IF w = 3 THEN (bs[1] % 16) * 4096 + (bs[2] % 64) * 64 + (bs[3] % 64)
                  ELSE (bs[1] % 8) * 262144 + (bs[2] % 64) * 4096
                       + (bs[3] % 64) * 64 + (bs[4] % 64)
         IN  << c >> \o Chars(SubSeq(bs, w + 1, Len(bs)))

(* --------------------------- char::escape_debug ------------------------ *)
\* core::unicode::printable::is_printable: exact below U+0100; the scalar
\* values above it that the model's alphabet forms (U+2A69, U+29A69) are
\* printable
IsPrintable(c) ==
    IF c < 32 THEN FALSE
    ELSE IF c < 127 THEN TRUE
    ELSE IF c <= 160 THEN FALSE
    ELSE c # 173

\* Grapheme_Extend, for the combining diacritical marks U+0300..U+036F
IsGraphemeExtended(c) == c >= 768 /\ c <= 879

UnicodeEscape(c) == << "\\", "u", "{" >> \o HexAtoms(c) \o << "}" >>

\* char::escape_debug
EscapeDebug(c) ==
    IF c = 0 THEN << "\\", "0" >>
    ELSE IF c = 9 THEN << "\\", "t" >>
    ELSE IF c = 13 THEN << "\\", "r" >>
    ELSE IF c = 10 THEN << "\\", "n" >>
    ELSE IF c = 92 THEN << "\\", "\\" >>
    ELSE IF c = 34 THEN << "\\", "\"" >>
    ELSE IF c = 39 THEN << "\\", "'" >>
    ELSE IF IsGraphemeExtended(c) THEN UnicodeEscape(c)
    ELSE IF IsPrintable(c) THEN << CharAtom(c) >>
    ELSE UnicodeEscape(c)

(* ------------------------- Escaped (escaped.rs) ------------------------ *)
\* write!(f, "\\x{byte:02x}")
HexByte(byte) == << "\\", "x", HexDigits[(byte \div 16) + 1], HexDigits[(byte % 16) + 1] >>

RECURSIVE HexRun(_)
HexRun(bs) == IF bs = << >> THEN << >> ELSE HexByte(Head(bs)) \o HexRun(Tail(bs))

\* a valid run written without char::escape_debug
EscapeCharUnescaped(c) ==
    IF c = 92 THEN << "\\", "\\" >> ELSE << CharAtom(c) >>

\* a valid run with the backslash written as it is
EscapeCharBackslashRaw(c) ==
    IF ~IsAsciiGraphic(c) THEN EscapeDebug(c) ELSE << CharAtom(c) >>

\* one character of a valid run, lines 40-46
EscapeChar(c) ==
    IF c = 92 THEN << "\\", "\\" >>
    ELSE IF ~IsAsciiGraphic(c) THEN EscapeDebug(c)
    ELSE << CharAtom(c) >>

RECURSIVE EscapeRun(_)
EscapeRun(cs) == IF cs = << >> THEN << >> ELSE EscapeChar(Head(cs)) \o EscapeRun(Tail(cs))

RECURSIVE Verbatim(_)
Verbatim(cs) == IF cs = << >> THEN << >> ELSE << CharAtom(Head(cs)) >> \o Verbatim(Tail(cs))

\* s.chars().all(|c| c.is_ascii_graphic() && c != '\\')
AllPlain(cs) == \A i \in 1..Len(cs) : IsAsciiGraphic(cs[i]) /\ cs[i] # 92

\* range == (0..self.bytes.len())
IsWhole(bs, range) == range.start = 0 /\ range.end = Len(bs)

OpenQuote(bs, range) == IF IsWhole(bs, range) THEN << "\"" >> ELSE << >>

\* the state of one call of Escaped::fmt: pc "start" before line 25, "loop" at
\* the head of the while loop, "done" after a return, "panic" after the slice
\* of line 58 is out of range; f is the text written so far
FmtStart == [pc |-> "start", range |-> [start |-> 0, end |-> 0], f |-> << >>]

\* lines 25-28
FmtEnter(bs, st) ==
    IF bs = << >>
    THEN [st EXCEPT !.pc = "done", !.f = << "\"", "\"" >>]
    ELSE [st EXCEPT !.pc = "loop", !.range = [start |-> 0, end |-> Len(bs)]]

\* the Ok arm, lines 31-47, and line 67
FmtOk(bs, st) ==
    LET s == Chars(SubSeq(bs, st.range.start + 1, st.range.end)) IN
    IF IsWhole(bs, st.range) /\ AllPlain(s)
    THEN [st EXCEPT !.pc = "done", !.f = Verbatim(s)]
    ELSE [st EXCEPT !.f = st.f \o OpenQuote(bs, st.range) \o EscapeRun(s),
                    !.range = [start |-> st.range.end, end |-> Len(bs)]]

\* a range.end that leaves the range empty
GarbageEndStuck(range, e) == range.start

\* range.end after lines 53-56
GarbageEnd(range, e) ==
    IF e.error_len > 0 THEN range.start + e.error_len + 1 ELSE range.end

\* the Err arm, lines 49-65, and line 67
FmtErr(bs, st, e) ==
    LET quoted == st.f \o OpenQuote(bs, st.range) IN
    IF e.valid_up_to = 0
    THEN LET end == GarbageEnd(st.range, e) IN
         IF end > Len(bs)
         THEN [st EXCEPT !.pc = "panic", !.f = quoted,
                         !.range = [start |-> st.range.start, end |-> end]]
         ELSE [st EXCEPT !.f = quoted \o HexRun(SubSeq(bs, st.range.start + 1, end)),
                         !.range = [start |-> end, end |-> Len(bs)]]
    ELSE [st EXCEPT !.f = quoted,
                    !.range = [start |-> st.range.start,
                               end |-> st.range.start + e.valid_up_to]]

\* one pass of the while loop, lines 29-68, or the closing quote of line 69
FmtLoop(bs, st) ==
    IF st.range.start = Len(bs)
    THEN [st EXCEPT !.pc = "done", !.f = st.f \o << "\"" >>]
    ELSE LET r == FromUtf8(SubSeq(bs, st.range.start + 1, st.range.end)) IN
         IF r.ok THEN FmtOk(bs, st) ELSE FmtErr(bs, st, r)

FmtStep(bs, st) == IF st.pc = "start" THEN FmtEnter(bs, st) ELSE FmtLoop(bs, st)

RECURSIVE FmtRun(_, _)
FmtRun(bs, st) == IF st.pc \in {"done", "panic"} THEN st ELSE FmtRun(bs, FmtStep(bs, st))

\* <Escaped as Display>::fmt on a formatter that takes every write
EscapedFmt(bs) == FmtRun(bs, FmtStart)

(* ----------------------- LogRequest (request.rs) ---------------------- *)
None == [some |-> FALSE]
Some(x) == [some |-> TRUE, val |-> x]

DecDigits == << "0", "1", "2", "3", "4", "5", "6", "7", "8", "9" >>

\* Display of an unsigned integer: one write of its decimal digits
RECURSIVE DecStr(_)
DecStr(n) == IF n < 10 THEN DecDigits[n + 1] ELSE DecStr(n \div 10) \o DecDigits[(n % 10) + 1]

\* "{a}.{b}.{c}.{d}"
Dotted(a, b, c, d) == << DecStr(a), ".", DecStr(b), ".", DecStr(c), ".", DecStr(d) >>

\* the eight 16-bit segments of sixteen octets
Segments(o) == [i \in 1..8 |-> o[2 * i - 1] * 256 + o[2 * i]]

\* the segments seg[from..to], in lowercase hexadecimal, joined by ':'
RECURSIVE HexSegs(_, _, _)
HexSegs(seg, from, to) ==
    IF from > to THEN << >>
    ELSE << Concat(HexAtoms(seg[from])) >>
         \o (IF from < to THEN << ":" >> ELSE << >>)
         \o HexSegs(seg, from + 1, to)

\* the length of the run of zero segments that starts at i
RECURSIVE ZeroRun(_, _)
ZeroRun(seg, i) == IF i > 8 \/ seg[i] # 0 THEN 0 ELSE 1 + ZeroRun(seg, i + 1)

\* Display of an Ipv6Addr that is not IPv4-mapped: the first longest run of
\* two or more zero segments is written "::"
Ipv6Text(o) ==
    LET seg  == Segments(o)
        best == CHOOSE i \in 1..8 :
                    /\ \A j \in 1..8 : ZeroRun(seg, j) <= ZeroRun(seg, i)
                    /\ \A j \in 1..(i - 1) : ZeroRun(seg, j) < ZeroRun(seg, i)
        n    == ZeroRun(seg, best)
    IN  IF n > 1
        THEN HexSegs(seg, 1, best - 1) \o << "::" >> \o HexSegs(seg, best + n, 8)
        ELSE HexSegs(seg, 1, 8)

\* a pattern that looks at the twelfth octet only
IsV4MappedLoose(o) == (\A i \in 1..10 : o[i] = 0) /\ o[12] = 255

\* the pattern of line 126
IsV4Mapped(o) == (\A i \in 1..10 : o[i] = 0) /\ o[11] = 255 /\ o[12] = 255

\* lines 121-134
RemoteText(remote) ==
    IF ~remote.some THEN << "<unknown-remote>" >>
    ELSE LET a == remote.val IN
         IF a.v = 4
         THEN Dotted(a.ip[1], a.ip[2], a.ip[3], a.ip[4]) \o << ":", DecStr(a.port) >>
         ELSE (IF IsV4Mapped(a.ip)
               THEN Dotted(a.ip[13], a.ip[14], a.ip[15], a.ip[16])
               ELSE Ipv6Text(a.ip))
              \o << ":", DecStr(a.port) >>

\* b"::ffff:"
MappedPrefix == << 58, 58, 102, 102, 102, 102, 58 >>

\* every leading "::ffff:" removed, not only the first
RECURSIVE StripMappedEvery(_)
StripMappedEvery(fwd) ==
    IF Len(fwd) >= Len(MappedPrefix) /\ SubSeq(fwd, 1, Len(MappedPrefix)) = MappedPrefix
    THEN StripMappedEvery(SubSeq(fwd, Len(MappedPrefix) + 1, Len(fwd)))
    ELSE fwd

\* fwd.strip_prefix(b"::ffff:").unwrap_or(fwd), line 138
StripMapped(fwd) ==
    IF Len(fwd) >= Len(MappedPrefix) /\ SubSeq(fwd, 1, Len(MappedPrefix)) = MappedPrefix
    THEN SubSeq(fwd, Len(MappedPrefix) + 1, Len(fwd))
    ELSE fwd

\* a piece of formatting: the text it writes and whether it panics after it
Lit(atoms) == [f |-> atoms, panic |-> FALSE]

AsPiece(st) == [f |-> st.f, panic |-> st.pc = "panic"]

\* write!(f, "{}", Escaped::from(bs))
Esc(bs) == AsPiece(EscapedFmt(bs))

\* Escaped::from(Option<&T>), escaped.rs lines 15-21
EscOpt(h) == Esc(IF h.some THEN h.val ELSE << >>)

\* the pieces in order after the text done, up to the first one that panics
RECURSIVE Pieces(_, _)
Pieces(ps, done) ==
    IF ps = << >> THEN Lit(done)
    ELSE IF Head(ps).panic THEN [f |-> done \o Head(ps).f, panic |-> TRUE]
    ELSE Pieces(Tail(ps), done \o Head(ps).f)

\* the ':' written also when there is no action
ActionTextAlwaysColon(r) == IF r.action.some THEN << r.action.val, ":" >> ELSE << ":" >>

\* lines 108-110
ActionText(r) == IF r.action.some THEN << r.action.val, ":" >> ELSE << >>

\* lines 111-115
StatusText(r) == IF r.status.some THEN << DecStr(r.status.val) >> ELSE << "???" >>

\* <LogRequest as Display>::fmt, lines 106-155, on a formatter that takes every
\* write; duration is the Debug text of start_time.elapsed()
DisplayFmt(r, duration) ==
    Pieces(<<
        Lit(<< "request: [" >>),
        Lit(ActionText(r)),
        Lit(StatusText(r)),
        Lit(<< "] " >>),
        IF r.user.some THEN Esc(r.user.val) ELSE Lit(<< >>),
        Lit(IF r.user.some THEN << " " >> ELSE << >>),
        Lit(RemoteText(r.remote)),
        Lit(IF r.fwd.some THEN << "/" >> ELSE << >>),
        IF r.fwd.some THEN Esc(StripMapped(r.fwd.val)) ELSE Lit(<< >>),
        Lit(<< " " >>), EscOpt(r.host),
        Lit(<< " ", r.method, " ", r.uri, " ", r.version, " " >>),
        EscOpt(r.user_agent), Lit(<< " " >>), EscOpt(r.referer),
        Lit(<< " ", duration, "\n" >>) >>, << >>)

Min(a, b) == IF a < b THEN a ELSE b

\* what a sink of capacity cap takes of the formatting d: it fails the write
\* that follows its cap-th piece (cap = -1: it never fails).  The outcome is
\* the text that reached the sink and "ok", "err" (the io::Error of the sink)
\* or "panic" (the formatting panicked)
Taken(d, cap) ==
    LET n == IF cap < 0 THEN Len(d.f) ELSE Min(cap, Len(d.f))
    IN  [text |-> SubSeq(d.f, 1, n),
         io   |-> IF n < Len(d.f) THEN "err" ELSE IF d.panic THEN "panic" ELSE "ok"]

\* internal_write, lines 95-97: write!(write, "{self}") hands the text to the
\* sink one piece at a time
InternalWrite(r, duration, cap) == Taken(DisplayFmt(r, duration), cap)

NoWrite == [text |-> << >>, io |-> "none"]

\* Drop::drop, lines 159-163: what is written to stderr and how the internal
\* write ended ("none": it was not called)
DropWrites(r, duration, cap) ==
    IF ~r.logged THEN InternalWrite(r, duration, cap) ELSE NoWrite

\* how drop ends for its caller: the io::Error is discarded by "let _"
DropRet(io) == IF io = "panic" THEN "panic" ELSE "ok"

(* ------------------------------- state --------------------------------- *)
\* bytes    Escaped::bytes
\* esc      the running call of Escaped::fmt on bytes
\* rec      the fields of one LogRequest (start_time is read as an elapsed time)
\* life     "none" before from_request, "pending" while the record is owned
\*          by its scope, "dropped" after Drop::drop has run
\* fin      what ended the record: "write", "discard" or "scope" (the end of
\*          the scope of a record that was neither written nor discarded)
\* sink     the text that reached the sink given to write
\* stderr   the text that reached std::io::stderr()
\* io       how the last internal_write ended: "ok", "err", "panic"; "none"
\*          when there was none
\* ret      how the last operation ended for its caller: "ok", "err" (write
\*          returned the io::Error), "panic"
\* attempts the calls of internal_write
\* thr      per concurrent record: where its finalization stands
\* file     the sink shared by concurrent writes, as the owners of its pieces
\*          (neighbouring pieces of one record are kept as one entry)
\* console  stderr shared by concurrent drops, in the same form
\* lock     the holder of the stderr lock, 0 when free
VARIABLES bytes, esc, rec, life, fin, sink, stderr, io, ret, attempts,
          thr, file, console, lock

encVars == << bytes, esc >>
recVars == << rec, life, fin, sink, stderr, io, ret, attempts >>
concVars == << thr, file, console, lock >>
vars == << bytes, esc, rec, life, fin, sink, stderr, io, ret, attempts,
           thr, file, console, lock >>

(* ------------------------------- inputs -------------------------------- *)
Inputs == SeqsUpTo(Alphabet, MaxLen)

\* header values: absent, plain, quoted, with the mapped prefix, and opaque
\* bytes (a HeaderValue holds any byte but the control characters)
HostValues == {None, Some(<< 97 >>), Some(<< 97, 255 >>)}
FwdValues == {None, Some(MappedPrefix \o << 97 >>), Some(<< 255, 97 >>),
              Some(MappedPrefix \o MappedPrefix \o << 97 >>),
              Some(MappedPrefix \o << 255 >>)}
AgentValues == {None, Some(<< 97, 32, 97 >>)}
RefererValues == {None, Some(<< 195, 169 >>)}
Methods == {"GET", "POST"}
Uris == {"/"}
Versions == {"HTTP/1.1"}
\* a String is valid UTF-8
Users == {<< 97 >>, << 97, 10 >>}
Remotes == {[v |-> 4, ip |-> << 127, 0, 0, 1 >>, port |-> 80],
            [v |-> 6, ip |-> << 0, 0, 0, 0, 0, 0, 0, 0, 0, 0, 255, 255, 203, 0, 113, 5 >>,
             port |-> 443],
            [v |-> 6, ip |-> << 0, 0, 0, 0, 0, 0, 0, 0, 0, 0, 0, 255, 203, 0, 113, 5 >>,
             port |-> 443],
            [v |-> 6, ip |-> << 32, 1, 13, 184, 0, 0, 0, 0, 0, 0, 0, 0, 0, 0, 0, 1 >>,
             port |-> 8080]}
Actions == {"get"}
Statuses == {200, 404}
Elapsed == {"0ns", "1.5ms"}
\* the capacity of a sink: -1 never fails
Caps == {-1} \cup (0..MaxFail)
Threads == 1..NThreads

(* ------------------------- LogRequest: operations ---------------------- *)
\* from_request, lines 38-54
FromRequest(fwd, host, method, uri, version, user_agent, referer) ==
    [logged |-> FALSE, user |-> None, remote |-> None, fwd |-> fwd, host |-> host,
     method |-> method, uri |-> uri, version |-> version, user_agent |-> user_agent,
     referer |-> referer, action |-> None, status |-> None]

NoRec == FromRequest(None, None, "GET", "/", "HTTP/1.1", None, None)

\* self.logged = true, line 91
WriteNotLogged(r) == r
WriteLogged(r) == [r EXCEPT !.logged = TRUE]

\* self.logged = true, line 101
DiscardNotLogged(r) == r
DiscardLogged(r) == [r EXCEPT !.logged = TRUE]

from_request ==
    /\ life = "none"
    /\ \E fwd \in FwdValues, host \in HostValues, method \in Methods, uri \in Uris,
          version \in Versions, user_agent \in AgentValues, referer \in RefererValues :
          rec' = FromRequest(fwd, host, method, uri, version, user_agent, referer)
    /\ life' = "pending"
    /\ ret' = "ok"
    /\ UNCHANGED << fin, sink, stderr, io, attempts, encVars, concVars >>

\* lines 60-63
set_remote ==
    /\ life = "pending"
    /\ \E remote \in Remotes : rec' = [rec EXCEPT !.remote = Some(remote)]
    /\ ret' = "ok"
    /\ UNCHANGED << life, fin, sink, stderr, io, attempts, encVars, concVars >>

\* a set_user that also clears the peer address
set_user_clearing_remote ==
    /\ life = "pending"
    /\ \E user \in Users : rec' = [rec EXCEPT !.user = Some(user), !.remote = None]
    /\ ret' = "ok"
    /\ UNCHANGED << life, fin, sink, stderr, io, attempts, encVars, concVars >>

\* lines 67-70
set_user ==
    /\ life = "pending"
    /\ \E user \in Users : rec' = [rec EXCEPT !.user = Some(user)]
    /\ ret' = "ok"
    /\ UNCHANGED << life, fin, sink, stderr, io, attempts, encVars, concVars >>

\* lines 75-78
set_action ==
    /\ life = "pending"
    /\ \E action \in Actions : rec' = [rec EXCEPT !.action = Some(action)]
    /\ ret' = "ok"
    /\ UNCHANGED << life, fin, sink, stderr, io, attempts, encVars, concVars >>

\* lines 83-87
set_response ==
    /\ life = "pending"
    /\ \E status \in Statuses : rec' = [rec EXCEPT !.status = Some(status)]
    /\ ret' = "ok"
    /\ UNCHANGED << life, fin, sink, stderr, io, attempts, encVars, concVars >>

Calls(x) == IF x = "none" THEN 0 ELSE 1

\* the record r ends: w is what its explicit write did (NoWrite: there was
\* none) and dw what Drop::drop did then
Finalize(r, w, dw, how) ==
    /\ rec' = r
    /\ sink' = sink \o w.text
    /\ stderr' = stderr \o dw.text
    /\ io' = IF w.io = "none" THEN dw.io ELSE w.io
    /\ ret' = IF w.io = "panic" \/ DropRet(dw.io) = "panic" THEN "panic"
              ELSE IF w.io = "err" THEN "err" ELSE "ok"
    /\ attempts' = attempts + Calls(w.io) + Calls(dw.io)
    /\ life' = "dropped"
    /\ fin' = how
    /\ UNCHANGED << encVars, concVars >>

\* write, lines 90-93, and the drop of self that ends it (also when the
\* formatting panics and self is dropped by the unwinding)
write ==
    /\ life = "pending"
    /\ \E cap \in Caps, ecap \in Caps, d \in Elapsed :
          Finalize(WriteLogged(rec),
                   InternalWrite(WriteLogged(rec), d, cap),
                   DropWrites(WriteLogged(rec), d, ecap), "write")

\* discard, lines 100-102, and the drop of self that ends it
discard ==
    /\ life = "pending"
    /\ \E ecap \in Caps, d \in Elapsed :
          Finalize(DiscardLogged(rec), NoWrite,
                   DropWrites(DiscardLogged(rec), d, ecap), "discard")

\* the record reaches the end of its scope: Drop::drop, lines 159-163
drop ==
    /\ life = "pending"
    /\ \E ecap \in Caps, d \in Elapsed :
          Finalize(rec, NoWrite, DropWrites(rec, d, ecap), "scope")

(* ----------------------------- Escaped: steps -------------------------- *)
AtErr == esc.pc = "loop" /\ esc.range.start # Len(bytes)
           /\ ~FromUtf8(SubSeq(bytes, esc.range.start + 1, esc.range.end)).ok
AtOk == esc.pc = "loop" /\ esc.range.start # Len(bytes)
           /\ FromUtf8(SubSeq(bytes, esc.range.start + 1, esc.range.end)).ok

Step == esc' = FmtStep(bytes, esc) /\ UNCHANGED << bytes, recVars, concVars >>

\* line 26: the empty input
FmtEmpty == esc.pc = "start" /\ bytes = << >> /\ Step
\* line 28
FmtBegin == esc.pc = "start" /\ bytes # << >> /\ Step
\* line 34: the whole input is plain, returned as it is
FmtPlain == AtOk /\ FmtStep(bytes, esc).pc = "done" /\ Step
\* lines 36-47: a valid run, escaped
FmtValidRun == AtOk /\ FmtStep(bytes, esc).pc = "loop" /\ Step
\* lines 53-60: an invalid run, in hexadecimal
FmtGarbage == AtErr /\ FmtStep(bytes, esc).range.start # esc.range.start /\ Step
\* line 58 with range.end beyond the input
FmtSlicePanic == AtErr /\ FmtStep(bytes, esc).pc = "panic" /\ Step
\* lines 62-63: narrow the range to the valid prefix
FmtNarrow == AtErr /\ FmtStep(bytes, esc).pc = "loop"
                /\ FmtStep(bytes, esc).range.start = esc.range.start /\ Step
\* line 69
FmtClose == esc.pc = "loop" /\ esc.range.start = Len(bytes) /\ Step

(* ------------------------ concurrent finalization ---------------------- *)
\* the record of thread t, as its handler leaves it
ConcRec(t) ==
    [FromRequest(None, None, "GET", "/", "HTTP/1.1", None, None)
        EXCEPT !.status = Some(200 + t)]

\* the pieces internal_write hands to its sink for the record of thread t
Line(t) == DisplayFmt(ConcRec(t), "0ns").f

\* a piece of record t reaches a sink
Put(s, t) == IF s # << >> /\ s[Len(s)] = t THEN s ELSE Append(s, t)

\* write(&file): line 91
conc_write_begin(t) ==
    /\ thr[t].pc = "pending"
    /\ thr' = [thr EXCEPT ![t] = [pc |-> "writing", pos |-> 0, logged |-> TRUE]]
    /\ UNCHANGED << file, console, lock, encVars, recVars >>

\* one write of write!(write, "{self}"), line 96
conc_write_piece(t) ==
    /\ thr[t].pc = "writing"
    /\ thr[t].pos < Len(Line(t))
    /\ file' = Put(file, t)
    /\ thr' = [thr EXCEPT ![t].pos = @ + 1]
    /\ UNCHANGED << console, lock, encVars, recVars >>

\* write returns, and self is dropped: logged, nothing is written
conc_write_end(t) ==
    /\ thr[t].pc = "writing"
    /\ thr[t].pos = Len(Line(t))
    /\ thr[t].logged
    /\ thr' = [thr EXCEPT ![t].pc = "done"]
    /\ UNCHANGED << file, console, lock, encVars, recVars >>

\* drop of a pending record: std::io::stderr().lock(), line 161
conc_drop_lock(t) ==
    /\ thr[t].pc = "pending"
    /\ ~thr[t].logged
    /\ lock = 0
    /\ lock' = t
    /\ thr' = [thr EXCEPT ![t].pc = "dropping"]
    /\ UNCHANGED << file, console, encVars, recVars >>

\* one write of write!(write, "{self}") under the lock
conc_drop_piece(t) ==
    /\ thr[t].pc = "dropping"
    /\ thr[t].pos < Len(Line(t))
    /\ console' = Put(console, t)
    /\ thr' = [thr EXCEPT ![t].pos = @ + 1]
    /\ UNCHANGED << file, lock, encVars, recVars >>

\* the lock guard is dropped at the end of line 161
conc_drop_unlock(t) ==
    /\ thr[t].pc = "dropping"
    /\ thr[t].pos = Len(Line(t))
    /\ lock' = 0
    /\ thr' = [thr EXCEPT ![t].pc = "done"]
    /\ UNCHANGED << file, console, encVars, recVars >>

(* ---------------------------- specifications --------------------------- *)
EncIdle == bytes = << >> /\ esc = FmtStart
RecIdle ==
    /\ rec = NoRec
    /\ life = "none"
    /\ fin = "none"
    /\ sink = << >>
    /\ stderr = << >>
    /\ io = "none"
    /\ ret = "ok"
    /\ attempts = 0
ConcIdle ==
    /\ thr = [t \in Threads |-> [pc |-> "pending", pos |-> 0, logged |-> FALSE]]
    /\ file = << >>
    /\ console = << >>
    /\ lock = 0

\* one record, from from_request to the end of its scope
Init == RecIdle /\ EncIdle /\ ConcIdle

Next ==
    \/ from_request
    \/ set_remote
    \/ set_user
    \/ set_action
    \/ set_response
    \/ write
    \/ discard
    \/ drop

Spec == Init /\ [][Next]_vars

\* one call of Escaped::fmt on any input
EscInit == bytes \in Inputs /\ esc = FmtStart /\ RecIdle /\ ConcIdle

EscNext ==
    \/ FmtEmpty
    \/ FmtBegin
    \/ FmtPlain
    \/ FmtValidRun
    \/ FmtGarbage
    \/ FmtSlicePanic
    \/ FmtNarrow
    \/ FmtClose

EscSpec == EscInit /\ [][EscNext]_vars

\* several records finalized at once, each by write to one shared sink or by
\* drop
ConcInit == ConcIdle /\ RecIdle /\ EncIdle

ConcNext ==
    \E t \in Threads :
        \/ conc_write_begin(t)
        \/ conc_write_piece(t)
        \/ conc_write_end(t)
        \/ conc_drop_lock(t)
        \/ conc_drop_piece(t)
        \/ conc_drop_unlock(t)

ConcSpec == ConcInit /\ [][ConcNext]_vars

(* -------------------------------- claims ------------------------------- *)
RECURSIVE Count(_, _)
Count(s, x) == IF s = << >> THEN 0 ELSE (IF Head(s) = x THEN 1 ELSE 0) + Count(Tail(s), x)

\* the text is one line: it ends with its only newline
IsOneLine(s) == s # << >> /\ s[Len(s)] = "\n" /\ Count(s, "\n") = 1

\* every byte is ASCII-graphic and not the backslash, and there is one
IsPlainInput(bs) == bs # << >> /\ \A i \in 1..Len(bs) : IsAsciiGraphic(bs[i]) /\ bs[i] # 92

\* C1: a record that reaches the end of its scope without write or discard
\* leaves exactly one line on stderr (a stderr that takes the writes), and
\* nothing anywhere else.
C1_ScopeEndOneLine ==
    (fin = "scope" /\ io # "err") => (IsOneLine(stderr) /\ sink = << >>)

\* C2: for every byte sequence Escaped's Display completes without a panic,
\* and on the quoted path what it wrote ends with the closing quote.
C2_NeverPanicsQuoteClosed ==
    /\ esc.pc # "panic"
    /\ (esc.pc = "done" /\ ~IsPlainInput(bytes))
          => (Len(esc.f) >= 2 /\ esc.f[Len(esc.f)] = "\"")

\* C3: a record on which write is called writes exactly one line to the sink
\* it is given (a sink that takes the writes), and the end of scope that
\* follows writes nothing, to that sink or to stderr.
C3_WriteOneLine ==
    (fin = "write" /\ io # "err") => (IsOneLine(sink) /\ stderr = << >>)

\* C4: a record on which discard is called produces no line: nothing is
\* written by discard or by the end of scope that follows, whatever the
\* setters did before.
C4_DiscardWritesNothing ==
    fin = "discard" => (sink = << >> /\ stderr = << >> /\ attempts = 0 /\ ret = "ok")

C4_Witness ==
    /\ fin = "discard"
    /\ rec.user.some /\ rec.remote.some /\ rec.action.some /\ rec.status.some
    /\ rec.host = Some(<< 97, 255 >>)

\* C5: the emission at scope end always completes: drop returns normally
\* for every record and for a failing stderr.
C5_DropReturnsNormally == fin = "scope" => ret = "ok"

\* C6: when the sink fails during write, the io::Error is returned to the
\* caller, the record is logged all the same, and the end of scope that
\* follows makes no second attempt.
C6_WriteErrorReturned ==
    (fin = "write" /\ io = "err")
        => (ret = "err" /\ rec.logged /\ attempts = 1 /\ stderr = << >>)

C6_Witness == fin = "write" /\ io = "err" /\ ret = "err" /\ sink # << >>

\* C7: records finalized concurrently against one sink, by write or by drop,
\* reach it as whole lines: the pieces of one record are never separated by
\* pieces of another.
C7_LinesNotInterleaved ==
    \A t \in Threads : Count(file, t) <= 1 /\ Count(console, t) <= 1

\* C8: two different inputs never encode to the same token.
C8_Injective ==
    esc.pc = "done"
        => \A other \in Inputs :
              (EscapedFmt(other).pc = "done" /\ EscapedFmt(other).f = esc.f)
                  => other = bytes

\* C9: the output is the input as it is, unquoted, exactly when the input is
\* not empty and all ASCII-graphic without backslash; for every other input
\* it starts with the opening quote and ends with the closing quote.
C9_PlainOrQuoted ==
    esc.pc \in {"done", "panic"}
        => IF IsPlainInput(bytes)
           THEN esc.f = Verbatim(bytes)
           ELSE /\ esc.pc = "done"
                /\ Len(esc.f) >= 2
                /\ esc.f[1] = "\""
                /\ esc.f[Len(esc.f)] = "\""

\* the atoms of the characters that are written as themselves
GraphicAtoms == {GraphicTable[i] : i \in 1..Len(GraphicTable)}

\* the atoms of the characters char::escape_debug escapes, below U+0100
UnprintableAtoms == {CharAtom(c) : c \in {x \in 0..255 : ~IsPrintable(x)}}

\* C10 as stated: the output holds no character that is not ASCII-graphic;
\* the space, the control characters and the non-ASCII characters appear
\* only as escape sequences.
C10_OnlyGraphicWritten == \A i \in 1..Len(esc.f) : esc.f[i] \in GraphicAtoms

\* C10 as amended: the output holds no unprintable character (a control
\* character appears only as its escape sequence); the space and the
\* printable non-ASCII characters are written as themselves, and only
\* between the quotes.
C10_NoUnprintableWritten ==
    /\ \A i \in 1..Len(esc.f) : esc.f[i] \notin UnprintableAtoms
    /\ (\E i \in 1..Len(esc.f) : esc.f[i] \notin GraphicAtoms) => esc.f[1] = "\""
    /\ esc.pc = "done" =>
          \A i \in 1..Len(esc.f) :
              esc.f[i] \notin GraphicAtoms => (1 < i /\ i < Len(esc.f))

\* a control character was encoded next to a space or a non-ASCII character
C10_Witness ==
    /\ esc.pc = "done"
    /\ \E i \in 1..Len(bytes) : bytes[i] = 10
    /\ \E i \in 1..(Len(esc.f) - 1) : esc.f[i] = "\\" /\ esc.f[i + 1] = "n"
    /\ \E i \in 1..Len(esc.f) : esc.f[i] \notin GraphicAtoms

IsHexAtom(a) == \E i \in 1..Len(HexDigits) : HexDigits[i] = a

\* the place of the first "}" at or after i when only hexadecimal digits come
\* before it, 0 when there is none
RECURSIVE CloseBrace(_, _)
CloseBrace(f, i) ==
    IF i > Len(f) THEN 0
    ELSE IF f[i] = "}" THEN i
    ELSE IF IsHexAtom(f[i]) THEN CloseBrace(f, i + 1)
    ELSE 0

\* the length of the escape sequence whose backslash is f[i]: \\, \xHH, one
\* of the debug escapes written for a character that is not ASCII-graphic
\* (\n, \t, \r, \0, \u{H..}); 0 when f[i] starts none
EscapeLen(f, i) ==
    IF i + 1 > Len(f) THEN 0
    ELSE IF f[i + 1] \in {"\\", "n", "t", "r", "0"} THEN 2
    ELSE IF f[i + 1] = "x"
    THEN (IF i + 3 <= Len(f) /\ IsHexAtom(f[i + 2]) /\ IsHexAtom(f[i + 3]) THEN 4 ELSE 0)
    ELSE IF f[i + 1] = "u" /\ i + 3 <= Len(f) /\ f[i + 2] = "{" /\ CloseBrace(f, i + 3) > i + 3
    THEN CloseBrace(f, i + 3) - i + 1
    ELSE 0

\* read from the left, every backslash from f[i] on starts an escape sequence
\* or is the second character of \\
RECURSIVE BackslashesEscaped(_, _)
BackslashesEscaped(f, i) ==
    IF i > Len(f) THEN TRUE
    ELSE IF f[i] # "\\" THEN BackslashesEscaped(f, i + 1)
    ELSE IF EscapeLen(f, i) = 0 THEN FALSE
    ELSE BackslashesEscaped(f, i + EscapeLen(f, i))

\* C11: the output never holds an unescaped backslash: every backslash is
\* the first character of an escape sequence (\\, \xHH, a debug escape) or
\* the second character of \\.
C11_NoBareBackslash == BackslashesEscaped(esc.f, 1)

\* a backslash of the input and an invalid byte were both encoded
C11_Witness ==
    /\ esc.pc = "done"
    /\ \E i \in 1..Len(bytes) : bytes[i] = 92
    /\ \E i \in 1..(Len(esc.f) - 1) : esc.f[i] = "\\" /\ esc.f[i + 1] = "\\"
    /\ \E i \in 1..(Len(esc.f) - 1) : esc.f[i] = "\\" /\ esc.f[i + 1] = "x"

\* the text of the one emission of the record
Emitted == sink \o stderr

\* the formatting ran to its end or to a panic, and no write was refused
EmittedWhole == attempts = 1 /\ io \in {"ok", "panic"}

\* C12: each emission is exactly one line: the text written for a record
\* ends with one newline and holds no other, whatever bytes the user id and
\* the host, user-agent, referer and forwarded-for values hold.
C12_EmissionIsOneLine == EmittedWhole => IsOneLine(Emitted)

\* C13: when action is unset the bracket holds the status alone, with no
\* ':'; when status is unset it is written '???'; when they are set the
\* bracket holds '{action}:{status}'.
C13_Bracket ==
    EmittedWhole =>
        /\ Emitted[1] = "request: ["
        /\ IF rec.action.some
           THEN Emitted[2] = rec.action.val /\ Emitted[3] = ":"
           ELSE Emitted[2] # ":"
        /\ LET at == IF rec.action.some THEN 4 ELSE 2
           IN  /\ Emitted[at] = (IF rec.status.some THEN DecStr(rec.status.val) ELSE "???")
               /\ Emitted[at + 1] = "] "

C13_Witness ==
    /\ fin = "scope" /\ io = "ok"
    /\ ~rec.action.some /\ ~rec.status.some
    /\ SubSeq(Emitted, 1, 3) = << "request: [", "???", "] " >>

\* the pieces written before the remote: the bracket and the user
BeforeRemote ==
    3 + (IF rec.action.some THEN 2 ELSE 0)
      + (IF rec.user.some THEN Len(EscapedFmt(rec.user.val).f) + 1 ELSE 0)

\* the text the claim gives for a remote
C14_Expected(remote) ==
    IF ~remote.some THEN << "<unknown-remote>" >>
    ELSE LET ip == remote.val.ip
             port == << ":", DecStr(remote.val.port) >>
         IN  IF remote.val.v = 4
             THEN << DecStr(ip[1]), ".", DecStr(ip[2]), ".", DecStr(ip[3]), ".",
                     DecStr(ip[4]) >> \o port
             ELSE IF SubSeq(ip, 1, 12) = << 0, 0, 0, 0, 0, 0, 0, 0, 0, 0, 255, 255 >>
             THEN << DecStr(ip[13]), ".", DecStr(ip[14]), ".", DecStr(ip[15]), ".",
                     DecStr(ip[16]) >> \o port
             ELSE Ipv6Text(ip) \o port

\* C14: an IPv6 remote of ten zero bytes, 0xFF 0xFF, a, b, c, d is written
\* 'a.b.c.d:port'; every other IPv6 remote in its IPv6 form followed by
\* ':port'; an IPv4 remote 'a.b.c.d:port'; an unset remote
\* '<unknown-remote>'.
C14_Remote ==
    EmittedWhole =>
        LET want == C14_Expected(rec.remote)
        IN  /\ SubSeq(Emitted, BeforeRemote + 1, BeforeRemote + Len(want)) = want
            /\ Emitted[BeforeRemote + Len(want) + 1] \in {"/", " "}

\* an address one octet away from the IPv4-mapped form was written
C14_Witness ==
    /\ EmittedWhole
    /\ rec.remote.some /\ rec.remote.val.v = 6
    /\ rec.remote.val.ip[11] = 0 /\ rec.remote.val.ip[12] = 255
    /\ \E i \in 1..Len(Emitted) : Emitted[i] = "::"

\* the value with one leading "::ffff:" removed
C15_StrippedOnce(v) ==
    IF Len(v) >= 7 /\ (\A i \in 1..7 : v[i] = MappedPrefix[i])
    THEN [i \in 1..(Len(v) - 7) |-> v[i + 7]]
    ELSE v

ErrAtCursor ==
    AtErr /\ FromUtf8(SubSeq(bytes, esc.range.start + 1, esc.range.end)).valid_up_to = 0

ErrLenAtCursor == FromUtf8(SubSeq(bytes, esc.range.start + 1, esc.range.end)).error_len

\* C16: when the decoding fails at the cursor with a known error length n,
\* exactly the n + 1 bytes from the cursor are written as \xHH and the scan
\* resumes right after them; with an unknown length every remaining byte is
\* written as \xHH.
C16_InvalidRun ==
    [][ErrAtCursor =>
          LET n == ErrLenAtCursor
              from == esc.range.start
              upto == IF n > 0 THEN from + n + 1 ELSE Len(bytes)
          IN  /\ upto <= Len(bytes)
              /\ esc'.pc = "loop"
              /\ esc'.f = esc.f \o OpenQuote(bytes, esc.range)
                                \o HexRun(SubSeq(bytes, from + 1, upto))
              /\ esc'.range.start = upto]_vars

Ended(st) == st.pc \in {"done", "panic"}

\* a measure of the work left: twice the bytes past the cursor, one more
\* while the range is not narrowed, and the closing step
Variant(bs, st) ==
    IF Ended(st) THEN 0
    ELSE IF st.pc = "start" THEN 2 * Len(bs) + 3
    ELSE 2 * (Len(bs) - st.range.start) + (IF st.range.end = Len(bs) THEN 1 ELSE 0) + 1

\* one pass of the loop advances the cursor, or narrows the range to a valid
\* prefix that is not empty, or leaves the loop
PassProgress ==
    (esc.pc = "loop" /\ esc.range.start # Len(bytes)) =>
        \/ esc'.range.start > esc.range.start
        \/ /\ esc'.pc = "loop"
           /\ esc'.range.start = esc.range.start
           /\ esc'.range.end > esc.range.start
           /\ esc'.range.end < esc.range.end
           /\ FromUtf8(SubSeq(bytes, esc'.range.start + 1, esc'.range.end)).ok
        \/ Ended(esc')

\* the guards of the steps of EscNext: one of them is open
HasNextStep ==
    \/ esc.pc = "start"
    \/ esc.pc = "loop" /\ esc.range.start = Len(bytes)
    \/ AtOk /\ FmtStep(bytes, esc).pc \in {"done", "loop"}
    \/ AtErr /\ FmtStep(bytes, esc).range.start # esc.range.start
    \/ AtErr /\ FmtStep(bytes, esc).pc = "panic"
    \/ AtErr /\ FmtStep(bytes, esc).pc = "loop"
             /\ FmtStep(bytes, esc).range.start = esc.range.start

\* C17: the scan loop ends for every input: each pass advances the cursor by
\* at least one byte or narrows the range to a valid prefix that is not
\* empty, which the next pass consumes, so the passes are bounded by the
\* length of the input.
\* The call is synchronous, so it ends when every state short of the end has
\* a next step and every step lowers the measure, which is never negative.
C17_Terminates ==
    /\ [][PassProgress /\ Variant(bytes, esc') < Variant(bytes, esc)]_vars
    /\ [](/\ Variant(bytes, esc) >= 0
          /\ Variant(bytes, esc) <= 2 * Len(bytes) + 3
          /\ (~Ended(esc) => HasNextStep))

\* a call that narrowed its range once has ended
C17_Witness ==
    /\ esc.pc = "done"
    /\ Len(bytes) = MaxLen
    /\ FromUtf8(bytes).valid_up_to > 0 /\ ~FromUtf8(bytes).ok

\* C18: over any sequence of operations on one record it is finalized
\* exactly once: its line is handed to a sink at most once (once by write
\* or at the end of scope, never after discard), the logged flag never goes
\* back from true to false, and after write or discard nothing more can be
\* applied to the record.
C18_FinalizedOnce ==
    /\ [](/\ attempts <= 1
          /\ (life = "dropped" <=> fin # "none")
          /\ (life = "dropped" => attempts = IF fin = "discard" THEN 0 ELSE 1)
          /\ (fin \in {"write", "discard"} => rec.logged)
          /\ (life # "dropped" => ~rec.logged))
    /\ [][/\ rec.logged => rec'.logged
          /\ life = "dropped" =>
                UNCHANGED << rec, life, fin, sink, stderr, io, ret, attempts >>]_vars

\* a write on a failing sink, after setters, and the end of scope after it
C18_Witness ==
    /\ fin = "write" /\ io = "err" /\ attempts = 1 /\ rec.logged
    /\ rec.user.some /\ rec.status.some
    /\ stderr = << >>

SetterFields == {"remote", "user", "action", "status"}

ChangedFields == {k \in DOMAIN rec : rec[k] # rec'[k]}

\* C19: a setter always succeeds, overwrites its own field with the new
\* value and no other, leaves the logged flag alone, writes to no sink and
\* keeps the record pending; a record leaves the pending state only by being
\* finalized.
C19_SetterFrame ==
    [][/\ (life = "pending" /\ life' = "pending") =>
             /\ ret' = "ok"
             /\ \E k \in SetterFields : ChangedFields \subseteq {k}
             /\ \A k \in ChangedFields : rec'[k].some
             /\ ~rec'.logged
             /\ UNCHANGED << sink, stderr, io, attempts, fin >>
       /\ (life = "pending" /\ life' # "pending") =>
             (life' = "dropped" /\ fin' \in {"write", "discard", "scope"})]_vars

\* every setter was called, set_user and set_response last with the second
\* of their values, and the record is pending with nothing written
C19_Witness ==
    /\ life = "pending" /\ ret = "ok"
    /\ rec.user = Some(<< 97, 10 >>) /\ rec.status = Some(404)
    /\ rec.remote.some /\ rec.action.some
    /\ ~rec.logged
    /\ sink = << >> /\ stderr = << >> /\ attempts = 0
====
